---------------------------- MODULE Spec2Model ----------------------------
(***************************************************************************)
(* Model of TaskScheduler (generate_template_prototype3.py).               *)
(*                                                                         *)
(* Dates are proleptic ordinals, as datetime.date.toordinal() numbers      *)
(* them: date.min is ordinal 1 and date.max is ordinal MaxDate (scaled     *)
(* down from 3652059).  date + timedelta(days=n) is d + n and raises       *)
(* OverflowError when the sum is no ordinal of a date.                     *)
(*                                                                         *)
(* A task name is a string, modelled as a sequence of characters so that   *)
(* ', '.join can be computed.                                              *)
(***************************************************************************)
EXTENDS Integers, Sequences, FiniteSets, TLC

\* ---------------------------------------------------------------- bounds
MaxDate    == 3    \* ordinal of date.max (scaled down)
Today0     == 2    \* the date on which the scheduler is constructed
MaxLen     == 2    \* longest interval list a caller passes to add_task
MaxReps    == 2    \* largest repetition count a caller passes
MaxDays    == 1    \* largest window generate_schedule is called with
MaxOffsets == 2    \* offsets the callers pass to the add operations, in total

Dates      == 1..MaxDate
Names      == {<<"A">>, <<"B">>}
Offsets    == {-1, 0, 1}
StartDates == {Today0, MaxDate}
\* the start_date argument: <<>> is None, <<d>> is the date d
StartArgs  == {<<>>} \cup {<<d>> : d \in StartDates}
Steps      == {-1, 0, 1}

RECURSIVE SeqsUpTo(_, _)
SeqsUpTo(S, n) ==
    IF n = 0 THEN {<<>>}
    ELSE LET shorter == SeqsUpTo(S, n - 1)
         IN  shorter \cup {Append(q, x) : q \in shorter, x \in S}

IntervalLists == SeqsUpTo(Offsets, MaxLen)

VARIABLES
    tasks,      \* self.tasks: insertion-ordered dict, as a sequence of items
    schedule,   \* self.schedule: defaultdict(list); DOMAIN schedule is its key set
    today,      \* what datetime.date.today() returns
    op,         \* the last call made on the scheduler, with its arguments
                \* (start_date after the default has been filled in)
    ret,        \* what that call returned (<<>> for None)
    raised,     \* whether that call raised OverflowError
    used,       \* offsets passed to the add operations so far
    pc          \* main's loop: "prompt", "exited" (break) or "crashed"
                \* (an exception left main); "prompt" while main is not run

vars == <<tasks, schedule, today, op, ret, raised, used, pc>>

\* ------------------------------------------------------------ dict helpers
\* key in self.tasks
HasTask(tk, task_name) == \E i \in 1..Len(tk) : tk[i].task_name = task_name

\* self.tasks[key]
TaskInfo(tk, task_name) ==
    LET i == CHOOSE j \in 1..Len(tk) : tk[j].task_name = task_name
    IN  [intervals |-> tk[i].intervals, start_date |-> tk[i].start_date]

\* Mutant: self.tasks.setdefault(task_name, {...}), the first definition stays.
SetTaskIfAbsent(tk, task_name, intervals, start_date) ==
    IF HasTask(tk, task_name) THEN tk
    ELSE Append(tk, [task_name |-> task_name, intervals |-> intervals,
                     start_date |-> start_date])

\* Mutant: self.tasks = {task_name: {...}}, the other tasks are dropped.
SetTaskAlone(tk, task_name, intervals, start_date) ==
    <<[task_name |-> task_name, intervals |-> intervals, start_date |-> start_date]>>

\* Mutant: del self.tasks[task_name] first, a re-added name moves to the end.
SetTaskAtEnd(tk, task_name, intervals, start_date) ==
    LET others == {i \in 1..Len(tk) : tk[i].task_name # task_name}
        nth(n) == CHOOSE i \in others : Cardinality({j \in others : j < i}) = n - 1
    IN  [n \in 1..Cardinality(others) |-> tk[nth(n)]]
        \o <<[task_name |-> task_name, intervals |-> intervals,
              start_date |-> start_date]>>

\* self.tasks[task_name] = {...}: an existing key keeps its position
SetTask(tk, task_name, intervals, start_date) ==
    LET item == [task_name |-> task_name, intervals |-> intervals,
                 start_date |-> start_date]
    IN  IF HasTask(tk, task_name)
        THEN [i \in 1..Len(tk) |-> IF tk[i].task_name = task_name THEN item ELSE tk[i]]
        ELSE Append(tk, item)

\* Mutant: self.schedule[review_date] = [task_name], the list is replaced.
ScheduleReplace(sch, review_date, task_name) ==
    IF review_date \in DOMAIN sch
    THEN [sch EXCEPT ![review_date] = <<task_name>>]
    ELSE sch @@ (review_date :> <<task_name>>)

\* self.schedule[review_date].append(task_name): a missing key is created
ScheduleAppend(sch, review_date, task_name) ==
    IF review_date \in DOMAIN sch
    THEN [sch EXCEPT ![review_date] = Append(@, task_name)]
    ELSE sch @@ (review_date :> <<task_name>>)

\* self.schedule.get(date, []): a missing key is not created
ScheduleGet(sch, date) == IF date \in DOMAIN sch THEN sch[date] ELSE <<>>

\* defaultdict(list)
EmptySchedule == [d \in {} |-> <<>>]

\* ----------------------------------------------------------------- add_task
\* for interval in intervals: review_date = start_date + timedelta(interval);
\*                            self.schedule[review_date].append(task_name)
\* Mutant: a name is put on a date once, if task_name not in self.schedule[..].
RECURSIVE AddLoopOnce(_, _, _, _)
AddLoopOnce(sch, task_name, intervals, start_date) ==
    IF intervals = <<>> THEN [schedule |-> sch, raised |-> FALSE]
    ELSE LET review_date == start_date + Head(intervals)
         IN  IF review_date \notin Dates
             THEN [schedule |-> sch, raised |-> TRUE]
             ELSE AddLoopOnce(IF \E i \in 1..Len(ScheduleGet(sch, review_date)) :
                                     sch[review_date][i] = task_name
                              THEN sch
                              ELSE ScheduleAppend(sch, review_date, task_name),
                              task_name, Tail(intervals), start_date)

RECURSIVE AddLoop(_, _, _, _)
AddLoop(sch, task_name, intervals, start_date) ==
    IF intervals = <<>> THEN [schedule |-> sch, raised |-> FALSE]
    ELSE LET review_date == start_date + Head(intervals)
         IN  IF review_date \notin Dates
             THEN [schedule |-> sch, raised |-> TRUE]
             ELSE AddLoop(ScheduleAppend(sch, review_date, task_name),
                          task_name, Tail(intervals), start_date)

\* if start_date is None: start_date = datetime.date.today()
DefaultToday(start_arg, now) == IF start_arg = <<>> THEN now ELSE start_arg[1]

add_task(tk, sch, task_name, intervals, start_date) ==
    LET r == AddLoop(sch, task_name, intervals, start_date)
    IN  [tasks    |-> SetTask(tk, task_name, intervals, start_date),
         schedule |-> r.schedule,
         raised   |-> r.raised]

RECURSIVE TotalEntriesOver(_, _)
TotalEntriesOver(sch, D) ==
    IF D = {} THEN 0
    ELSE LET d == CHOOSE x \in D : TRUE
         IN  Len(sch[d]) + TotalEntriesOver(sch, D \ {d})

TotalEntries(sch) == TotalEntriesOver(sch, DOMAIN sch)

AddTask ==
    \E task_name \in Names, intervals \in IntervalLists, start_arg \in StartArgs :
        /\ used + Len(intervals) <= MaxOffsets
        /\ used' = used + Len(intervals)
        /\ LET r == add_task(tasks, schedule, task_name, intervals,
                             DefaultToday(start_arg, today))
           IN  /\ tasks' = r.tasks
               /\ schedule' = r.schedule
               /\ raised' = r.raised
        /\ op' = [name |-> "add_task", task_name |-> task_name,
                  intervals |-> intervals,
                  start_date |-> DefaultToday(start_arg, today)]
        /\ ret' = <<>>
        /\ UNCHANGED <<today, pc>>

\* ------------------------------------------------ add_task_with_repetitions
\* intervals = []; current_interval = 0
\* for _ in range(repetitions): intervals.append(current_interval)
\*                              current_interval += interval
RECURSIVE RepLoop(_, _, _, _)
RepLoop(intervals, current_interval, interval, remaining) ==
    IF remaining <= 0 THEN intervals
    ELSE RepLoop(Append(intervals, current_interval), current_interval + interval,
                 interval, remaining - 1)

\* Mutant: the series starts one interval after the start date.
add_task_from_interval(tk, sch, task_name, interval, repetitions, start_date) ==
    add_task(tk, sch, task_name, RepLoop(<<>>, interval, interval, repetitions),
             start_date)

add_task_with_repetitions(tk, sch, task_name, interval, repetitions, start_date) ==
    add_task(tk, sch, task_name, RepLoop(<<>>, 0, interval, repetitions), start_date)

AddTaskWithRepetitions ==
    \E task_name \in Names, interval \in Steps, repetitions \in 0..MaxReps,
       start_arg \in StartArgs :
        /\ used + repetitions <= MaxOffsets
        /\ used' = used + repetitions
        /\ LET r == add_task_with_repetitions(tasks, schedule, task_name, interval,
                                              repetitions,
                                              DefaultToday(start_arg, today))
           IN  /\ tasks' = r.tasks
               /\ schedule' = r.schedule
               /\ raised' = r.raised
        /\ op' = [name |-> "add_task_with_repetitions", task_name |-> task_name,
                  interval |-> interval, repetitions |-> repetitions,
                  start_date |-> DefaultToday(start_arg, today)]
        /\ ret' = <<>>
        /\ UNCHANGED <<today, pc>>

\* -------------------------------------------------------- generate_schedule
\* for interval in task_info['intervals']:
\*     review_date = task_info['start_date'] + timedelta(interval)
\*     if start_date <= review_date <= end_date: self.schedule[review_date].append(..)
\* Mutant: if start_date <= review_date < end_date, the last day is left out.
RECURSIVE GenIntervalsExclusive(_, _, _, _, _, _)
GenIntervalsExclusive(sch, task_name, intervals, task_start, start_date, end_date) ==
    IF intervals = <<>> THEN [schedule |-> sch, raised |-> FALSE]
    ELSE LET review_date == task_start + Head(intervals)
         IN  IF review_date \notin Dates
             THEN [schedule |-> sch, raised |-> TRUE]
             ELSE GenIntervalsExclusive(
                      IF start_date <= review_date /\ review_date < end_date
                      THEN ScheduleAppend(sch, review_date, task_name)
                      ELSE sch,
                      task_name, Tail(intervals), task_start, start_date, end_date)

RECURSIVE GenIntervals(_, _, _, _, _, _)
GenIntervals(sch, task_name, intervals, task_start, start_date, end_date) ==
    IF intervals = <<>> THEN [schedule |-> sch, raised |-> FALSE]
    ELSE LET review_date == task_start + Head(intervals)
         IN  IF review_date \notin Dates
             THEN [schedule |-> sch, raised |-> TRUE]
             ELSE GenIntervals(IF start_date <= review_date /\ review_date <= end_date
                               THEN ScheduleAppend(sch, review_date, task_name)
                               ELSE sch,
                               task_name, Tail(intervals), task_start, start_date, end_date)

\* for task_name, task_info in self.tasks.items(): in insertion order
RECURSIVE GenTasks(_, _, _, _)
GenTasks(sch, tk, start_date, end_date) ==
    IF tk = <<>> THEN [schedule |-> sch, raised |-> FALSE]
    ELSE LET r == GenIntervals(sch, Head(tk).task_name, Head(tk).intervals,
                               Head(tk).start_date, start_date, end_date)
         IN  IF r.raised THEN r
             ELSE GenTasks(r.schedule, Tail(tk), start_date, end_date)

\* Mutant: the rebuild adds to the index it finds.
KeptSchedule(sch) == sch

\* self.schedule = defaultdict(list), once end_date has been computed
ClearedSchedule(sch) == EmptySchedule

generate_schedule(tk, sch, now, days) ==
    LET start_date == now
        end_date   == start_date + days
    IN  IF end_date \notin Dates
        THEN [schedule |-> sch, raised |-> TRUE]
        ELSE GenTasks(ClearedSchedule(sch), tk, start_date, end_date)

GenerateSchedule ==
    \E days \in 0..MaxDays :
        /\ LET r == generate_schedule(tasks, schedule, today, days)
           IN  /\ schedule' = r.schedule
               /\ raised' = r.raised
        /\ op' = [name |-> "generate_schedule", days |-> days, today |-> today]
        /\ ret' = <<>>
        /\ UNCHANGED <<tasks, today, used, pc>>

\* ------------------------------------------------------- get_tasks_for_date
\* Mutant: return self.schedule[date], which makes the defaultdict create the key.
get_tasks_creating_key(sch, date) ==
    [schedule |-> IF date \in DOMAIN sch THEN sch ELSE sch @@ (date :> <<>>),
     ret      |-> ScheduleGet(sch, date)]

get_tasks_for_date(sch, date) ==
    [schedule |-> sch, ret |-> ScheduleGet(sch, date)]

GetTasksForDate ==
    \E date \in Dates :
        /\ LET r == get_tasks_for_date(schedule, date)
           IN  /\ schedule' = r.schedule
               /\ ret' = r.ret
        /\ op' = [name |-> "get_tasks_for_date", date |-> date]
        /\ raised' = FALSE
        /\ UNCHANGED <<tasks, today, used, pc>>

\* ------------------------------------------------------------ export_to_csv
Digits == <<"0", "1", "2", "3", "4", "5", "6", "7", "8", "9">>

\* date.strftime('%Y-%m-%d'): the ordinals of the model are the days of
\* January of year 1
strftime(date) ==
    <<"0", "0", "0", "1", "-", "0", "1", "-",
      Digits[(date \div 10) + 1], Digits[(date % 10) + 1]>>

\* calendar.day_name[date.weekday()]; ordinal 1 is a Monday
day_name == <<"Monday", "Tuesday", "Wednesday", "Thursday", "Friday",
              "Saturday", "Sunday">>

weekday(date) == (date + 6) % 7

\* ', '.join(names)
RECURSIVE Join(_)
Join(names) ==
    IF names = <<>> THEN <<>>
    ELSE IF Len(names) = 1 THEN Head(names)
    ELSE Head(names) \o <<",", " ">> \o Join(Tail(names))

\* Mutant: sorted(self.schedule.keys(), reverse=True)
RECURSIVE sorted_reverse(_)
sorted_reverse(keys) ==
    IF keys = {} THEN <<>>
    ELSE LET most == CHOOSE d \in keys : \A e \in keys : e <= d
         IN  <<most>> \o sorted_reverse(keys \ {most})

\* sorted(self.schedule.keys())
RECURSIVE sorted(_)
sorted(keys) ==
    IF keys = {} THEN <<>>
    ELSE LET least == CHOOSE d \in keys : \A e \in keys : d <= e
         IN  <<least>> \o sorted(keys \ {least})

\* for date in sorted_dates: writer.writerow([...])
RECURSIVE WriteRows(_, _)
WriteRows(sch, sorted_dates) ==
    IF sorted_dates = <<>> THEN <<>>
    ELSE LET date == Head(sorted_dates)
         IN  <<[Date  |-> strftime(date),
                Day   |-> day_name[weekday(date) + 1],
                Tasks |-> Join(sch[date])]>>
             \o WriteRows(sch, Tail(sorted_dates))

Header == <<"Date", "Day", "Tasks">>

\* Mutant: the export regenerates the index before it writes.
export_after_regenerate(tk, sch, now) ==
    LET g == generate_schedule(tk, sch, now, MaxDays)
    IN  [tasks    |-> tk,
         schedule |-> g.schedule,
         rows     |-> WriteRows(g.schedule, sorted(DOMAIN g.schedule))]

export_to_csv(tk, sch, now) ==
    [tasks    |-> tk,
     schedule |-> sch,
     rows     |-> WriteRows(sch, sorted(DOMAIN sch))]

ExportToCsv ==
    /\ LET r == export_to_csv(tasks, schedule, today)
       IN  /\ tasks' = r.tasks
           /\ schedule' = r.schedule
           /\ ret' = [header |-> Header, rows |-> r.rows]
    /\ op' = [name |-> "export_to_csv"]
    /\ raised' = FALSE
    /\ UNCHANGED <<today, used, pc>>

\* --------------------------------------------------- print_monthly_calendar
\* The month argument: <<>> is None, <<m>> is the month m of year 1.
MonthArgs == {<<>>, <<2>>}

\* range(1, calendar.monthrange(year, month)[1] + 1), as dates: the dates of
\* the model are the days of month 1, no other month holds one of them
\* (if month is None the month of today is taken)
DaysOfMonth(month_arg) == IF DefaultToday(month_arg, 1) = 1 THEN Dates ELSE {}

\* for day in week: task_count = len(self.schedule.get(date, [])): the days
\* printed with a '*'
MarkedDays(sch, days) == {date \in days : Len(ScheduleGet(sch, date)) > 0}

\* "Tasks this month": for day in range(..): tasks = self.schedule.get(date, [])
\*                     if tasks: print(date, day name, ', '.join(tasks))
RECURSIVE ListMonth(_, _)
ListMonth(sch, sorted_days) ==
    IF sorted_days = <<>> THEN <<>>
    ELSE LET date  == Head(sorted_days)
             names == ScheduleGet(sch, date)
         IN  (IF names # <<>>
              THEN <<[Date  |-> strftime(date),
                      Day   |-> day_name[weekday(date) + 1],
                      Tasks |-> Join(names)]>>
              ELSE <<>>)
             \o ListMonth(sch, Tail(sorted_days))

\* Mutant: the calendar reads self.schedule[date], which creates the key.
print_calendar_creating_keys(tk, sch, month_arg) ==
    [tasks    |-> tk,
     schedule |-> [date \in DOMAIN sch \cup DaysOfMonth(month_arg) |->
                      ScheduleGet(sch, date)],
     marked   |-> MarkedDays(sch, DaysOfMonth(month_arg)),
     listing  |-> ListMonth(sch, sorted(DaysOfMonth(month_arg)))]

print_monthly_calendar(tk, sch, month_arg) ==
    [tasks    |-> tk,
     schedule |-> sch,
     marked   |-> MarkedDays(sch, DaysOfMonth(month_arg)),
     listing  |-> ListMonth(sch, sorted(DaysOfMonth(month_arg)))]

PrintMonthlyCalendar ==
    \E month_arg \in MonthArgs :
        /\ LET r == print_monthly_calendar(tasks, schedule, month_arg)
           IN  /\ tasks' = r.tasks
               /\ schedule' = r.schedule
               /\ ret' = [marked |-> r.marked, listing |-> r.listing]
        /\ op' = [name |-> "print_monthly_calendar", month |-> month_arg]
        /\ raised' = FALSE
        /\ UNCHANGED <<today, used, pc>>

\* ------------------------------------------------------------------- clock
Tick ==
    /\ today + 1 \in Dates
    /\ today' = today + 1
    /\ UNCHANGED <<tasks, schedule, op, ret, raised, used, pc>>

Init ==
    /\ tasks = <<>>
    /\ schedule = EmptySchedule
    /\ today = Today0
    /\ op = [name |-> "init"]
    /\ ret = <<>>
    /\ raised = FALSE
    /\ used = 0
    /\ pc = "prompt"

Next ==
    \/ AddTask
    \/ AddTaskWithRepetitions
    \/ GenerateSchedule
    \/ GetTasksForDate
    \/ ExportToCsv
    \/ PrintMonthlyCalendar
    \/ Tick

Spec == Init /\ [][Next]_vars

\* ============================================================ properties
Range(q) == {q[i] : i \in 1..Len(q)}

IsPrefix(p, q) == Len(p) <= Len(q) /\ \A i \in 1..Len(p) : p[i] = q[i]

\* The step is a call of the operation called opname (a Tick is no call).
IsCall(opname) == op'.name = opname /\ today' = today

\* The dates start_date + d, d in intervals, whether representable or not.
TargetDates(intervals, start_date) ==
    {start_date + intervals[i] : i \in 1..Len(intervals)}

\* The occurrence of task_name on date follows from the definition info.
Derivable(info, date) ==
    \E j \in 1..Len(info.intervals) : info.start_date + info.intervals[j] = date

\* ---------------------------------------------------------------------- C1
\* C1 (as claimed): after add_task(name, L, s) returns, get_tasks_for_date(s + d)
\* contains name for every d in L, and a date that is not s + d for any d in L
\* and holds no task of another name does not hold name either.
C1_AddThenQuery ==
    [][(IsCall("add_task") /\ ~raised') =>
        LET name == op'.task_name
            L    == op'.intervals
            s    == op'.start_date
        IN  /\ \A i \in 1..Len(L) :
                  name \in Range(get_tasks_for_date(schedule', s + L[i]).ret)
            /\ \A date \in Dates :
                  (/\ date \notin TargetDates(L, s)
                   /\ Range(get_tasks_for_date(schedule', date).ret) \subseteq {name})
                  => name \notin Range(get_tasks_for_date(schedule', date).ret)
      ]_vars

\* ---------------------------------------------------------------------- C2
\* The offset list [0, k, 2k, ..., (n-1)k].
Multiples(k, n) == [i \in 1..n |-> (i - 1) * k]

\* C2: add_task_with_repetitions(name, k, n, s) leaves the Task map and the
\* index (and raises or not) exactly as add_task(name, [0, k, ..., (n-1)k], s)
\* run from the same state; with n = 0 the index is unchanged and name is
\* stored with an empty interval list.
C2_RepetitionsAsAddTask ==
    [][IsCall("add_task_with_repetitions") =>
        LET name == op'.task_name
            k    == op'.interval
            n    == op'.repetitions
            s    == op'.start_date
            r    == add_task(tasks, schedule, name, Multiples(k, n), s)
        IN  /\ tasks' = r.tasks
            /\ schedule' = r.schedule
            /\ raised' = r.raised
            /\ n = 0 => /\ schedule' = schedule
                        /\ TaskInfo(tasks', name) = [intervals |-> <<>>, start_date |-> s]
      ]_vars

\* A series of two repetitions with a negative interval has been scheduled:
\* on the start date and on the day before it.
C2_Witness ==
    /\ op.name = "add_task_with_repetitions"
    /\ op.repetitions = 2 /\ op.interval = -1
    /\ ~raised
    /\ TaskInfo(tasks, op.task_name).intervals = <<0, -1>>
    /\ Range(ScheduleGet(schedule, op.start_date - 1)) = {op.task_name}
    /\ op.task_name \in Range(ScheduleGet(schedule, op.start_date))

\* ---------------------------------------------------------------------- C3
\* C3: after generate_schedule(days=D), run on a day today for which
\* today + D is a date, every key of the index lies in [today, today + D];
\* whatever the index held outside the window before the call is gone.
C3_WindowOnly ==
    [][(IsCall("generate_schedule") /\ today + op'.days \in Dates) =>
        \A date \in DOMAIN schedule' : today <= date /\ date <= today + op'.days
      ]_vars

\* A regeneration has completed and left entries in the index, while a task
\* has an offset that falls on a date outside the window.
C3_Witness ==
    /\ op.name = "generate_schedule" /\ ~raised /\ op.today = today
    /\ DOMAIN schedule # {}
    /\ \E i \in 1..Len(tasks) : \E j \in 1..Len(tasks[i].intervals) :
           LET review_date == tasks[i].start_date + tasks[i].intervals[j]
           IN  /\ review_date \in Dates
               /\ review_date < op.today \/ review_date > op.today + op.days

\* ---------------------------------------------------------------------- C4
\* C4: a generate_schedule(D) call that directly follows a
\* generate_schedule(D) call made on the same day leaves the index as the
\* first call left it.
C4_Idempotent ==
    [][(/\ op.name = "generate_schedule"
        /\ IsCall("generate_schedule")
        /\ op'.days = op.days
        /\ op'.today = op.today) => schedule' = schedule
      ]_vars

\* A regeneration has left a non-empty index, and the same call made again
\* now leaves this very index.
C4_Witness ==
    /\ op.name = "generate_schedule" /\ ~raised /\ op.today = today
    /\ \E date \in DOMAIN schedule : Len(schedule[date]) >= 2
    /\ generate_schedule(tasks, schedule, today, op.days).schedule = schedule

\* ---------------------------------------------------------------------- C5
\* C5 (as claimed): in every reachable state every occurrence of a name in
\* the index, on some date, is start_date + offset for an offset of the
\* name's current definition in the Task map.
C5_IndexDerivable ==
    \A date \in DOMAIN schedule : \A i \in 1..Len(schedule[date]) :
        /\ HasTask(tasks, schedule[date][i])
        /\ Derivable(TaskInfo(tasks, schedule[date][i]), date)

\* ---------------------------------------------------------------------- C6
\* Every list of the index before the step is still there after it, as a
\* prefix of the list on the same date.
EntriesKept ==
    \A date \in DOMAIN schedule :
        date \in DOMAIN schedule' /\ IsPrefix(schedule[date], schedule'[date])

IsAddCall == IsCall("add_task") \/ IsCall("add_task_with_repetitions")

\* C6: re-adding a name of the Task map is not refused (the call raises only
\* when a review date is no representable date, as a first add would); it
\* replaces the definition of the name, in place, by the new one; and the
\* index entries made before stay, at their date and position, through every
\* call that is not generate_schedule.
C6_ReAddOverwritesKeepsEntries ==
    [][/\ (IsAddCall /\ HasTask(tasks, op'.task_name)) =>
            LET name == op'.task_name
                info == TaskInfo(tasks', name)
            IN  /\ raised' = (\E date \in TargetDates(info.intervals, info.start_date) :
                                 date \notin Dates)
                /\ Len(tasks') = Len(tasks)
                /\ \A i \in 1..Len(tasks) : tasks'[i].task_name = tasks[i].task_name
                /\ \A i \in 1..Len(tasks) :
                       tasks[i].task_name # name => tasks'[i] = tasks[i]
                /\ info.start_date = op'.start_date
                /\ IsCall("add_task") => info.intervals = op'.intervals
                /\ IsCall("add_task_with_repetitions") =>
                       Len(info.intervals) = op'.repetitions
                /\ EntriesKept
       /\ (today' = today /\ op'.name # "generate_schedule") => EntriesKept
      ]_vars

\* A name has been re-added with offsets, and the index still holds an entry
\* of the name that its new definition does not yield.
C6_Witness ==
    /\ op.name = "add_task" /\ ~raised
    /\ op.intervals # <<>>
    /\ TaskInfo(tasks, op.task_name).intervals = op.intervals
    /\ \E date \in DOMAIN schedule :
           /\ op.task_name \in Range(schedule[date])
           /\ ~Derivable(TaskInfo(tasks, op.task_name), date)

\* ---------------------------------------------------------------------- C7
\* C7: add_task(name, L, s) only appends: every list of the index is a prefix
\* of the list on that date afterwards, the dates that are not s + d for a d
\* in L keep their lists (no key appears for them), and when the call
\* returns the index has Len(L) more entries.  add_task_with_repetitions
\* removes and reorders nothing either.
C7_AddOnlyAppends ==
    [][/\ IsCall("add_task") =>
            LET L == op'.intervals
                s == op'.start_date
            IN  /\ EntriesKept
                /\ \A date \in Dates \ TargetDates(L, s) :
                       /\ (date \in DOMAIN schedule') = (date \in DOMAIN schedule)
                       /\ ScheduleGet(schedule', date) = ScheduleGet(schedule, date)
                /\ ~raised' => TotalEntries(schedule') = TotalEntries(schedule) + Len(L)
       /\ IsCall("add_task_with_repetitions") => EntriesKept
      ]_vars

\* add_task has appended a name to a list that already held another name.
C7_Witness ==
    /\ op.name = "add_task" /\ ~raised
    /\ \E date \in DOMAIN schedule :
           /\ date \in TargetDates(op.intervals, op.start_date)
           /\ Len(schedule[date]) >= 2
           /\ schedule[date][1] # op.task_name
           /\ schedule[date][Len(schedule[date])] = op.task_name

\* ---------------------------------------------------------------------- C8
\* C8: get_tasks_for_date(date) returns the list the index holds for date
\* when it holds entries for it and the empty sequence otherwise, does not
\* raise, and leaves the index as it is: no key is created for the date.
C8_GetIsReadOnly ==
    [][IsCall("get_tasks_for_date") =>
        LET date == op'.date
        IN  /\ ret' = IF date \in DOMAIN schedule /\ schedule[date] # <<>>
                      THEN schedule[date] ELSE <<>>
            /\ ~raised'
            /\ DOMAIN schedule' = DOMAIN schedule
            /\ schedule' = schedule
      ]_vars

\* A date without entries has been queried while the index holds entries on
\* another date: the result is empty and the date is still no key.
C8_Witness ==
    /\ op.name = "get_tasks_for_date"
    /\ op.date \notin DOMAIN schedule
    /\ DOMAIN schedule # {}
    /\ ret = <<>>

\* ---------------------------------------------------------------------- C9
DigitValue(c) == CHOOSE n \in 0..9 : Digits[n + 1] = c

\* The day a Date field of the form YYYY-MM-DD names.
RowDate(row) == 10 * DigitValue(row.Date[9]) + DigitValue(row.Date[10])

\* The names a Tasks field lists, split at ', ' (no name of Names holds it).
RECURSIVE SplitFrom(_, _)
SplitFrom(rest, current) ==
    IF rest = <<>> THEN <<current>>
    ELSE IF Len(rest) >= 2 /\ rest[1] = "," /\ rest[2] = " "
         THEN <<current>> \o SplitFrom(SubSeq(rest, 3, Len(rest)), <<>>)
         ELSE SplitFrom(Tail(rest), Append(current, Head(rest)))

Split(field) == IF field = <<>> THEN <<>> ELSE SplitFrom(field, <<>>)

\* The index is what a regeneration of the current Task map yields.
Regenerated ==
    \E now \in Dates, days \in 0..MaxDays :
        LET g == generate_schedule(tasks, schedule, now, days)
        IN  ~g.raised /\ g.schedule = schedule

\* C9: export_to_csv writes the header and then one row per date that has a
\* task, in strictly ascending order of date, the Tasks field of a row
\* listing the names of its date in index order, duplicates kept; no other
\* row is written.  This holds of the index in any reachable state, so of a
\* regenerated index, also after it has been queried.
C9_ExportRows ==
    [][IsCall("export_to_csv") =>
        LET rows == ret'.rows
        IN  /\ ret'.header = <<"Date", "Day", "Tasks">>
            /\ \A i, j \in 1..Len(rows) : i < j => RowDate(rows[i]) < RowDate(rows[j])
            /\ {RowDate(rows[i]) : i \in 1..Len(rows)}
                   = {date \in Dates : ScheduleGet(schedule, date) # <<>>}
            /\ \A i \in 1..Len(rows) :
                   /\ rows[i].Date = strftime(RowDate(rows[i]))
                   /\ Split(rows[i].Tasks) = ScheduleGet(schedule, RowDate(rows[i]))
      ]_vars

\* An index that is the regeneration of the Task map, with tasks on two
\* dates, has been exported in two rows.
C9_Witness ==
    /\ op.name = "export_to_csv"
    /\ Regenerated
    /\ Cardinality(DOMAIN schedule) = 2
    /\ Len(ret.rows) = 2

\* --------------------------------------------------------------------- C10
\* C10: export_to_csv leaves the Task map and the index as they are and
\* writes the index as it finds it: one row for every key, with the names the
\* key holds, whether or not a regeneration would keep them.
C10_ExportNoRegeneration ==
    [][IsCall("export_to_csv") =>
        LET rows == ret'.rows
        IN  /\ tasks' = tasks
            /\ schedule' = schedule
            /\ ~raised'
            /\ Len(rows) = Cardinality(DOMAIN schedule)
            /\ {RowDate(rows[i]) : i \in 1..Len(rows)} = DOMAIN schedule
            /\ \A i \in 1..Len(rows) :
                   Split(rows[i].Tasks) = ScheduleGet(schedule, RowDate(rows[i]))
      ]_vars

\* The export has written a row for a date before today whose entry the
\* current definition of the task no longer yields.
C10_Witness ==
    /\ op.name = "export_to_csv"
    /\ \E i \in 1..Len(ret.rows) :
           LET date == RowDate(ret.rows[i])
           IN  /\ date < today
               /\ date \in DOMAIN schedule
               /\ \E k \in 1..Len(schedule[date]) :
                      ~Derivable(TaskInfo(tasks, schedule[date][k]), date)

\* --------------------------------------------------------------------- C13
\* How often name occurs in the list names.
Occurrences(name, names) == Cardinality({i \in 1..Len(names) : names[i] = name})

\* The positions of the interval list of info that fall on date.
PositionsOn(info, date) ==
    {i \in 1..Len(info.intervals) : info.start_date + info.intervals[i] = date}

\* C13: when generate_schedule(days=D) returns, every name occurs in the list
\* of every date as often as its current interval list has a position i with
\* start_date + intervals[i] = date and today <= date <= today + D, both ends
\* of the window included; what the index held before plays no part.
C13_RegeneratedCounts ==
    [][(IsCall("generate_schedule") /\ ~raised') =>
        \A name \in Names, date \in Dates :
            Occurrences(name, ScheduleGet(schedule', date))
              = IF HasTask(tasks, name) /\ today <= date /\ date <= today + op'.days
                THEN Cardinality(PositionsOn(TaskInfo(tasks, name), date))
                ELSE 0
      ]_vars

\* A regeneration over a window of at least two days has returned with an
\* entry on its first day and an entry on its last day.
C13_Witness ==
    /\ op.name = "generate_schedule" /\ ~raised /\ op.today = today
    /\ op.days >= 1
    /\ op.today \in DOMAIN schedule
    /\ op.today + op.days \in DOMAIN schedule

\* --------------------------------------------------------------------- C14
\* C14: the add operations raise for no duplicate and no negative offset as
\* such (only for a review date that is no date), and when they return name
\* has been added to every date start_date + d as often as d occurs in the
\* list, also on dates before start_date, while no other count changes;
\* add_task_with_repetitions(name, 0, n, s) adds name n times to s only.
C14_NoDeduplication ==
    [][/\ IsAddCall =>
            LET name == op'.task_name
                info == TaskInfo(tasks', name)
            IN  /\ raised' = (\E date \in TargetDates(info.intervals, info.start_date) :
                                 date \notin Dates)
                /\ ~raised' =>
                     \A other \in Names, date \in Dates :
                         Occurrences(other, ScheduleGet(schedule', date))
                           = Occurrences(other, ScheduleGet(schedule, date))
                             + IF other = name
                               THEN Cardinality(PositionsOn(info, date))
                               ELSE 0
       /\ IsCall("add_task") => TaskInfo(tasks', op'.task_name).intervals = op'.intervals
       /\ (IsCall("add_task_with_repetitions") /\ op'.interval = 0) =>
            \A date \in Dates :
                Occurrences(op'.task_name, ScheduleGet(schedule', date))
                  = Occurrences(op'.task_name, ScheduleGet(schedule, date))
                    + IF date = op'.start_date THEN op'.repetitions ELSE 0
      ]_vars

\* add_task has put a name twice on the day before its start date.
C14_Witness ==
    /\ op.name = "add_task" /\ ~raised
    /\ op.intervals = <<-1, -1>>
    /\ Occurrences(op.task_name, ScheduleGet(schedule, op.start_date - 1)) >= 2

\* --------------------------------------------------------------------- C15
IsReadCall ==
    /\ today' = today
    /\ op'.name \in {"generate_schedule", "get_tasks_for_date", "export_to_csv",
                     "print_monthly_calendar"}

\* C15: a name of the Task map stays in it, at its place, through every
\* step; an add operation inserts or overwrites the one key it is called
\* with; generate_schedule, get_tasks_for_date, export_to_csv and
\* print_monthly_calendar leave the Task map as it is.
C15_TasksNeverDeleted ==
    [][/\ Len(tasks) <= Len(tasks')
       /\ \A i \in 1..Len(tasks) : tasks'[i].task_name = tasks[i].task_name
       /\ IsAddCall =>
            /\ Len(tasks') <= Len(tasks) + 1
            /\ HasTask(tasks', op'.task_name)
            /\ \A i \in 1..Len(tasks) :
                   tasks[i].task_name # op'.task_name => tasks'[i] = tasks[i]
       /\ IsReadCall => tasks' = tasks
      ]_vars

\* The calendar has been printed while the Task map holds two names and the
\* index holds entries.
C15_Witness ==
    /\ op.name = "print_monthly_calendar"
    /\ Len(tasks) = 2
    /\ ret.marked # {}

\* --------------------------------------------------------------------- C16
\* C16 (as claimed): when add_task raises because a review date is no
\* representable date, the Task map and the index are as before the call.
C16_FailedAddChangesNothing ==
    [][(IsCall("add_task") /\ raised') => (tasks' = tasks /\ schedule' = schedule)]_vars

\* --------------------------------------------------------------------- C17
\* C17: every key of the index holds a non-empty list, in every reachable
\* state; so the rows an export has written are the keys of the index, one
\* row a key, each with tasks.
C17_KeysHoldTasks ==
    /\ \A date \in DOMAIN schedule : schedule[date] # <<>>
    /\ op.name = "export_to_csv" =>
         /\ {RowDate(ret.rows[i]) : i \in 1..Len(ret.rows)} = DOMAIN schedule
         /\ Len(ret.rows) = Cardinality(DOMAIN schedule)
         /\ \A i \in 1..Len(ret.rows) : ret.rows[i].Tasks # <<>>

\* The calendar of the month of the model's dates has been printed while the
\* index held entries on some dates and none on others: the dates without
\* entries are still no keys.
C17_Witness ==
    /\ op.name = "print_monthly_calendar" /\ op.month = <<>>
    /\ DOMAIN schedule # {}
    /\ ret.marked = DOMAIN schedule
    /\ Dates \ DOMAIN schedule # {}

\* --------------------------------------------------------------------- C18
\* The place of name in the Task map, which lists the names in the order in
\* which they were first added.
TaskPos(tk, task_name) == CHOOSE i \in 1..Len(tk) : tk[i].task_name = task_name

IsDigit(c) == \E n \in 0..9 : Digits[n + 1] = c

\* x.strip()
RECURSIVE StripLeft(_)
StripLeft(text) ==
    IF text # <<>> /\ Head(text) = " " THEN StripLeft(Tail(text)) ELSE text

RECURSIVE StripRight(_)
StripRight(text) ==
    IF text # <<>> /\ text[Len(text)] = " "
    THEN StripRight(SubSeq(text, 1, Len(text) - 1)) ELSE text

Strip(text) == StripRight(StripLeft(text))

RECURSIVE DecimalValue(_, _)
DecimalValue(digits, sofar) ==
    IF digits = <<>> THEN sofar
    ELSE DecimalValue(Tail(digits), 10 * sofar + DigitValue(Head(digits)))

\* int(text): an optional sign and decimal digits, blanks around them
\* allowed; anything else is a ValueError (ok is FALSE)
ParseInt(text) ==
    LET t      == Strip(text)
        signed == t # <<>> /\ Head(t) \in {"-", "+"}
        digits == IF signed THEN Tail(t) ELSE t
    IN  IF digits = <<>> \/ \E i \in 1..Len(digits) : ~IsDigit(digits[i])
        THEN [ok |-> FALSE, value |-> 0]
        ELSE [ok |-> TRUE,
              value |-> IF signed /\ Head(t) = "-"
                        THEN 0 - DecimalValue(digits, 0)
                        ELSE DecimalValue(digits, 0)]

\* intervals_input.split(',')
RECURSIVE SplitComma(_, _)
SplitComma(rest, current) ==
    IF rest = <<>> THEN <<current>>
    ELSE IF Head(rest) = ","
         THEN <<current>> \o SplitComma(Tail(rest), <<>>)
         ELSE SplitComma(Tail(rest), Append(current, Head(rest)))

\* [int(x.strip()) for x in intervals_input.split(',')]
ParseIntervals(text) ==
    LET fields == SplitComma(text, <<>>)
    IN  IF \E i \in 1..Len(fields) : ~ParseInt(fields[i]).ok
        THEN [ok |-> FALSE, value |-> <<>>]
        ELSE [ok |-> TRUE, value |-> [i \in 1..Len(fields) |-> ParseInt(fields[i]).value]]

\* datetime.datetime.strptime(text, "%Y-%m-%d").date() if text else today:
\* a text that names no date is a ValueError
ParseStartDate(text, now) ==
    IF text = <<>> THEN [ok |-> TRUE, value |-> now]
    ELSE IF \E date \in Dates : strftime(date) = text
         THEN [ok |-> TRUE, value |-> CHOOSE date \in Dates : strftime(date) = text]
         ELSE [ok |-> FALSE, value |-> 0]

\* generate_schedule(days=90): the default window, scaled down as the dates are
DefaultDays == 1

\* The texts typed in the model.
IntervalTexts ==
    { <<>>, <<"1", ",", "x">>, <<"0">>, <<"-", "1">>, <<"0", ",", " ", "1">> }

DateTexts == { <<>>, strftime(MaxDate), strftime(0) }

StepTexts == { <<"1">>, <<"x">> }

RepetitionTexts == { <<Digits[MaxReps + 1]>>, <<"x">> }

MonthTexts == { <<>>, <<"2">>, <<"x">> }

\* Mutant: the task is stored before the start date is read, so a malformed
\* date leaves the task behind.
menu_add_before_date(tk, sch, now, task_name, intervals_text, date_text) ==
    LET intervals == ParseIntervals(intervals_text)
        start     == ParseStartDate(date_text, now)
        r         == add_task(tk, sch, task_name, intervals.value,
                              IF start.ok THEN start.value ELSE now)
    IN  IF ~intervals.ok
        THEN [tasks |-> tk, schedule |-> sch, outcome |-> "invalid"]
        ELSE [tasks |-> r.tasks, schedule |-> r.schedule,
              outcome |-> IF ~start.ok THEN "invalid"
                          ELSE IF r.raised THEN "uncaught" ELSE "ok"]

\* choice == '1': the intervals are parsed, then the start date, then
\* add_task is called; except ValueError prints a message, any other
\* exception leaves main()
menu_add_task(tk, sch, now, task_name, intervals_text, date_text) ==
    LET intervals == ParseIntervals(intervals_text)
        start     == ParseStartDate(date_text, now)
        r         == add_task(tk, sch, task_name, intervals.value, start.value)
    IN  IF ~intervals.ok \/ ~start.ok
        THEN [tasks |-> tk, schedule |-> sch, outcome |-> "invalid"]
        ELSE [tasks |-> r.tasks, schedule |-> r.schedule,
              outcome |-> IF r.raised THEN "uncaught" ELSE "ok"]

\* choice == '2'
menu_add_task_with_repetitions(tk, sch, now, task_name, interval_text, repetitions_text, date_text) ==
    LET interval    == ParseInt(interval_text)
        repetitions == ParseInt(repetitions_text)
        start       == ParseStartDate(date_text, now)
        r           == add_task_with_repetitions(tk, sch, task_name, interval.value,
                                                 repetitions.value, start.value)
    IN  IF ~interval.ok \/ ~repetitions.ok \/ ~start.ok
        THEN [tasks |-> tk, schedule |-> sch, outcome |-> "invalid"]
        ELSE [tasks |-> r.tasks, schedule |-> r.schedule,
              outcome |-> IF r.raised THEN "uncaught" ELSE "ok"]

\* choice == '3'
menu_view_date(sch, now, date_text) ==
    LET date == ParseStartDate(date_text, now)
        r    == get_tasks_for_date(sch, date.value)
    IN  IF ~date.ok
        THEN [schedule |-> sch, shown |-> <<>>, outcome |-> "invalid"]
        ELSE [schedule |-> r.schedule, shown |-> r.ret, outcome |-> "ok"]

\* choice == '4' (the model has one year; the month text is parsed, blank is
\* the month of today)
menu_view_month(tk, sch, month_text) ==
    LET month == ParseInt(month_text)
        r     == print_monthly_calendar(tk, sch,
                     IF month_text = <<>> THEN <<>> ELSE <<month.value>>)
    IN  IF month_text # <<>> /\ ~month.ok
        THEN [tasks |-> tk, schedule |-> sch, shown |-> <<>>, outcome |-> "invalid"]
        ELSE [tasks |-> r.tasks, schedule |-> r.schedule,
              shown |-> [marked |-> r.marked, listing |-> r.listing],
              outcome |-> "ok"]

\* Mutant: the menu exports the index as it stands.
menu_export_as_is(tk, sch, now) ==
    LET e == export_to_csv(tk, sch, now)
    IN  [tasks |-> e.tasks, schedule |-> e.schedule, rows |-> e.rows,
         outcome |-> "ok"]

\* choice == '5': scheduler.generate_schedule(); scheduler.export_to_csv(filename)
menu_export(tk, sch, now) ==
    LET g == generate_schedule(tk, sch, now, DefaultDays)
        e == export_to_csv(tk, g.schedule, now)
    IN  IF g.raised
        THEN [tasks |-> tk, schedule |-> g.schedule, rows |-> <<>>,
              outcome |-> "uncaught"]
        ELSE [tasks |-> e.tasks, schedule |-> e.schedule, rows |-> e.rows,
              outcome |-> "ok"]

\* where the loop stands after a handler
AfterHandler(outcome) == IF outcome = "uncaught" THEN "crashed" ELSE "prompt"

Choice1 ==
    \E task_name \in Names, intervals_text \in IntervalTexts, date_text \in DateTexts :
        /\ pc = "prompt"
        /\ LET budget == Len(ParseIntervals(intervals_text).value)
               r == menu_add_task(tasks, schedule, today, task_name,
                                  intervals_text, date_text)
           IN  /\ used + budget <= MaxOffsets
               /\ used' = used + budget
               /\ tasks' = r.tasks
               /\ schedule' = r.schedule
               /\ raised' = (r.outcome = "uncaught")
               /\ pc' = AfterHandler(r.outcome)
               /\ op' = [name |-> "menu", choice |-> "1", task_name |-> task_name,
                         intervals_text |-> intervals_text,
                         date_text |-> IF ParseIntervals(intervals_text).ok
                                       THEN date_text ELSE <<>>,
                         outcome |-> r.outcome]
        /\ ret' = <<>>
        /\ UNCHANGED today

Choice2 ==
    \E task_name \in Names, interval_text \in StepTexts,
       repetitions_text \in RepetitionTexts, date_text \in DateTexts :
        /\ pc = "prompt"
        /\ LET budget == ParseInt(repetitions_text).value
               r == menu_add_task_with_repetitions(tasks, schedule, today, task_name,
                        interval_text, repetitions_text, date_text)
               read2 == ParseInt(interval_text).ok
               read3 == read2 /\ ParseInt(repetitions_text).ok
           IN  /\ used + budget <= MaxOffsets
               /\ used' = used + budget
               /\ tasks' = r.tasks
               /\ schedule' = r.schedule
               /\ raised' = (r.outcome = "uncaught")
               /\ pc' = AfterHandler(r.outcome)
               /\ op' = [name |-> "menu", choice |-> "2", task_name |-> task_name,
                         interval_text |-> interval_text,
                         repetitions_text |-> IF read2 THEN repetitions_text ELSE <<>>,
                         date_text |-> IF read3 THEN date_text ELSE <<>>,
                         outcome |-> r.outcome]
        /\ ret' = <<>>
        /\ UNCHANGED today

Choice3 ==
    \E date_text \in DateTexts :
        /\ pc = "prompt"
        /\ LET r == menu_view_date(schedule, today, date_text)
           IN  /\ schedule' = r.schedule
               /\ ret' = r.shown
               /\ op' = [name |-> "menu", choice |-> "3", date_text |-> date_text,
                         outcome |-> r.outcome]
        /\ raised' = FALSE
        /\ UNCHANGED <<tasks, today, used, pc>>

Choice4 ==
    \E month_text \in MonthTexts :
        /\ pc = "prompt"
        /\ LET r == menu_view_month(tasks, schedule, month_text)
           IN  /\ tasks' = r.tasks
               /\ schedule' = r.schedule
               /\ ret' = r.shown
               /\ op' = [name |-> "menu", choice |-> "4", month_text |-> month_text,
                         outcome |-> r.outcome]
        /\ raised' = FALSE
        /\ UNCHANGED <<today, used, pc>>

Choice5 ==
    /\ pc = "prompt"
    /\ LET r == menu_export(tasks, schedule, today)
       IN  /\ tasks' = r.tasks
           /\ schedule' = r.schedule
           /\ ret' = [header |-> Header, rows |-> r.rows]
           /\ raised' = (r.outcome = "uncaught")
           /\ pc' = AfterHandler(r.outcome)
           /\ op' = [name |-> "menu", choice |-> "5", today |-> today,
                     outcome |-> r.outcome]
    /\ UNCHANGED <<today, used>>

\* choice == '6': break
Choice6 ==
    /\ pc = "prompt"
    /\ pc' = "exited"
    /\ op' = [name |-> "menu", choice |-> "6", outcome |-> "ok"]
    /\ ret' = <<>>
    /\ raised' = FALSE
    /\ UNCHANGED <<tasks, schedule, today, used>>

\* any other text: "Invalid choice"
OtherChoices == {"7"}

ChoiceOther ==
    \E choice \in OtherChoices :
        /\ pc = "prompt"
        /\ op' = [name |-> "menu", choice |-> choice, outcome |-> "invalid"]
        /\ ret' = <<>>
        /\ raised' = FALSE
        /\ UNCHANGED <<tasks, schedule, today, used, pc>>

\* scheduler = TaskScheduler(), on a day whose default window is representable
MenuInit ==
    /\ tasks = <<>>
    /\ schedule = EmptySchedule
    /\ today \in {Today0 - 1, Today0}
    /\ op = [name |-> "init"]
    /\ ret = <<>>
    /\ raised = FALSE
    /\ used = 0
    /\ pc = "prompt"

MenuNext ==
    \/ Choice1
    \/ Choice2
    \/ Choice3
    \/ Choice4
    \/ Choice5
    \/ Choice6
    \/ ChoiceOther

SpecMenu == MenuInit /\ [][MenuNext]_vars

\* ------------------------------------------------------ claims on the menu
\* the step handles one menu choice
IsChoice(choice) == op'.name = "menu" /\ op'.choice = choice

MenuChoices == {"1", "2", "3", "4", "5", "6"}

\* C11: the menu loop ends when, and only when, choice '6' is entered: a step
\* that leaves the prompt is the handling of '6', and '6' leaves the prompt
\* as a clean exit; an input that is none of the six choices leaves the Task
\* map and the index unchanged and returns to the prompt without raising.
C11_LoopEndsOnlyOnExit ==
    [][/\ (pc = "prompt" /\ pc' # "prompt") => IsChoice("6")
       /\ IsChoice("6") => pc' = "exited"
       /\ (op'.name = "menu" /\ op'.choice \notin MenuChoices)
              => (tasks' = tasks /\ schedule' = schedule /\ pc' = "prompt"
                  /\ ~raised')]_vars

\* --------------------------------------------------------------------- C12
\* str(n) for a small integer
IntText(n) == IF n < 0 THEN <<"-", Digits[(0 - n) + 1]>> ELSE <<Digits[n + 1]>>

RECURSIVE JoinWith(_, _)
JoinWith(texts, separator) ==
    IF texts = <<>> THEN <<>>
    ELSE IF Len(texts) = 1 THEN Head(texts)
    ELSE Head(texts) \o separator \o JoinWith(Tail(texts), separator)

\* text writes one integer
WritesInt(text) == \E n \in -9..9 : text = IntText(n)

\* text writes a non-empty list of integers, separated by commas
WritesIntList(text) ==
    \E ns \in SeqsUpTo(Offsets, MaxLen) \ {<<>>} :
        \E separator \in {<<",">>, <<",", " ">>} :
            text = JoinWith([i \in 1..Len(ns) |-> IntText(ns[i])], separator)

\* text is blank (today) or writes a date as YYYY-MM-DD
WritesDate(text) == text = <<>> \/ \E date \in Dates : text = strftime(date)

MalformedInput ==
    \/ /\ IsChoice("1")
       /\ ~WritesIntList(op'.intervals_text) \/ ~WritesDate(op'.date_text)
    \/ /\ IsChoice("2")
       /\ \/ ~WritesInt(op'.interval_text)
          \/ ~WritesInt(op'.repetitions_text)
          \/ ~WritesDate(op'.date_text)

\* C12: in menu choices 1 and 2 a malformed interval list, a non-integer
\* interval or repetition count, or a malformed date text is reported as
\* invalid input, the loop is back at the prompt, and the Task map and the
\* index are exactly as before the choice.
C12_MalformedInputChangesNothing ==
    [][MalformedInput =>
          /\ op'.outcome = "invalid"
          /\ pc' = "prompt"
          /\ ~raised'
          /\ tasks' = tasks
          /\ schedule' = schedule
      ]_vars

\* Choice 1 has been refused for its date text alone, its interval list being
\* well formed, in a scheduler that holds a task and an index entry.
C12_Witness ==
    /\ op.name = "menu" /\ op.choice = "1" /\ op.outcome = "invalid"
    /\ WritesIntList(op.intervals_text)
    /\ ~WritesDate(op.date_text)
    /\ tasks # <<>>
    /\ DOMAIN schedule # {}
    /\ pc = "prompt"

\* --------------------------------------------------------------------- C19
InDefaultWindow(now, date) == now <= date /\ date <= now + DefaultDays

\* C19: after menu choice 5 the index is the regeneration of the current Task
\* map over [today, today + DefaultDays] (every name occurs on every date as
\* often as its interval list puts it there inside the window, and nowhere
\* outside), the exported rows are the dates of that index, and a view of a
\* date or of the month that follows shows nothing outside the window.
C19_MenuExportRegenerates ==
    [][/\ IsChoice("5") =>
            /\ pc' = "prompt"
            /\ \A name \in Names, date \in Dates :
                   Occurrences(name, ScheduleGet(schedule', date))
                     = IF HasTask(tasks, name) /\ InDefaultWindow(today, date)
                       THEN Cardinality(PositionsOn(TaskInfo(tasks, name), date))
                       ELSE 0
            /\ {RowDate(ret'.rows[i]) : i \in 1..Len(ret'.rows)}
                   = DOMAIN schedule'
            /\ \A date \in DOMAIN schedule' : InDefaultWindow(today, date)
       /\ (op.name = "menu" /\ op.choice = "5" /\ IsChoice("3")
           /\ op'.outcome = "ok"
           /\ ~InDefaultWindow(today, ParseStartDate(op'.date_text, today).value))
              => ret' = <<>>
       /\ (op.name = "menu" /\ op.choice = "5" /\ IsChoice("4")
           /\ op'.outcome = "ok")
              => /\ \A date \in ret'.marked : InDefaultWindow(today, date)
                 /\ \A i \in 1..Len(ret'.listing) :
                        InDefaultWindow(today, RowDate(ret'.listing[i]))
      ]_vars

\* Choice 5 has been handled in a scheduler that holds an index entry and a
\* task with a review date outside the default window.
C19_Witness ==
    /\ op.name = "menu" /\ op.choice = "5" /\ op.outcome = "ok"
    /\ DOMAIN schedule # {}
    /\ \E k \in 1..Len(tasks), date \in Dates :
           /\ ~InDefaultWindow(today, date)
           /\ PositionsOn(tasks[k], date) # {}

=============================================================================
